---- MODULE Spec2Model ----
(***************************************************************************)
(* Request handlers of the library catalogue: the Genre controller         *)
(* (controllers/genreController.js) and the BookInstance controller.       *)
(* The document store is the state; every handler is a sequence of steps,  *)
(* one per awaited store operation, and logs each response call it makes   *)
(* (res.render, res.redirect, next(err)) in req.res. Requests are served   *)
(* one at a time; the two reads of a Promise.all complete in either order. *)
(* Strings are sequences of one-character strings.                         *)
(***************************************************************************)
EXTENDS Integers, Sequences, FiniteSets

VARIABLES genres, books, instances, nextGenreId, nextInstanceId, req

vars == <<genres, books, instances, nextGenreId, nextInstanceId, req>>

\* ------------------------------------------------------------------ bounds

\* Genre ids are 1..MaxGenreId; ids are handed out in order and never reused.
MaxGenreId == 2

\* BookInstance ids are 1..MaxInstanceId.
MaxInstanceId == 2

\* Books are 1..NumBooks; no handler of these controllers writes a book.
NumBooks == 2

GenreIds == 1..MaxGenreId
InstanceIds == 1..MaxInstanceId
BookIds == 1..NumBooks

\* ------------------------------------------------------------ JS values

\* A missing form field (req.body.x === undefined): distinct from every string.
Undefined == <<"undefined">>

\* A query that found nothing.
Null == [null |-> TRUE]

\* ------------------------------------------------- validator sanitizers

\* express-validator hands standard validators and sanitizers toString(value).
ToString(v) == IF v = Undefined THEN <<>> ELSE v

IsSpace(c) == c \in {" ", "\t", "\n", "\r"}

RECURSIVE LTrim(_)
LTrim(s) == IF s # <<>> /\ IsSpace(Head(s)) THEN LTrim(Tail(s)) ELSE s

RECURSIVE RTrim(_)
RTrim(s) ==
  IF s # <<>> /\ IsSpace(s[Len(s)]) THEN RTrim(SubSeq(s, 1, Len(s) - 1)) ELSE s

\* .trim()
Trim(s) == RTrim(LTrim(s))

\* validator's escape also maps the back quote (to &#96;), a character a TLA+
\* string cannot hold; no input of the model carries it.
EscapeChar(c) ==
  CASE c = "&" -> <<"&", "a", "m", "p", ";">>
    [] c = "<" -> <<"&", "l", "t", ";">>
    [] c = ">" -> <<"&", "g", "t", ";">>
    [] c = "\"" -> <<"&", "q", "u", "o", "t", ";">>
    [] c = "'" -> <<"&", "#", "x", "2", "7", ";">>
    [] c = "/" -> <<"&", "#", "x", "2", "F", ";">>
    [] c = "\\" -> <<"&", "#", "x", "5", "C", ";">>
    [] OTHER -> <<c>>

RECURSIVE Escape(_)
\* .escape()
Escape(s) == IF s = <<>> THEN <<>> ELSE EscapeChar(Head(s)) \o Escape(Tail(s))

\* .isLength({ min })
IsLength(s, min) == Len(s) >= min

UpperCase == <<"A", "B", "C", "D", "E", "F", "G", "H", "I", "J", "K", "L", "M",
               "N", "O", "P", "Q", "R", "S", "T", "U", "V", "W", "X", "Y", "Z">>
LowerCase == <<"a", "b", "c", "d", "e", "f", "g", "h", "i", "j", "k", "l", "m",
               "n", "o", "p", "q", "r", "s", "t", "u", "v", "w", "x", "y", "z">>

FoldChar(c) ==
  IF \E i \in 1..Len(UpperCase) : UpperCase[i] = c
  THEN LowerCase[CHOOSE i \in 1..Len(UpperCase) : UpperCase[i] = c]
  ELSE c

\* The key two strings share under .collation({ locale: "en", strength: 2 }):
\* letters compare without regard to case.
Fold(s) == [i \in 1..Len(s) |-> FoldChar(s[i])]

CollationEqual(s, t) == Fold(s) = Fold(t)

\* ------------------------------------------------------------- the store

\* Genre.findById / BookInstance.findById
FindById(store, id) == IF id \in DOMAIN store THEN store[id] ELSE Null

\* Book.find({ genre: id }): the books whose genre list holds id.
BookFind(id) == {b \in BookIds : id \in books[b].genre}

\* Genre.findOne({ name }) with the collation left out: an exact match.
GenreFindOneExact(name) == {g \in DOMAIN genres : genres[g].name = name}

\* Genre.findOne({ name }).collation(strength 2): the genres the query matches;
\* findOne yields one of them, or null when there is none.
GenreFindOne(name) == {g \in DOMAIN genres : CollationEqual(genres[g].name, name)}

\* doc.save() of a new document.
Insert(store, doc) == [i \in DOMAIN store \cup {doc._id} |->
                         IF i = doc._id THEN doc ELSE store[i]]

\* Model.findByIdAndUpdate(id, doc, {}): sets doc's fields on the stored
\* document; without the upsert option an unknown id changes nothing.
Update(store, id, doc) ==
  IF id \in DOMAIN store THEN [store EXCEPT ![id] = doc] ELSE store

\* Model.findByIdAndDelete(id)
Delete(store, id) == [i \in DOMAIN store \ {id} |-> store[i]]

\* ------------------------------------------------------------- responses

Render(view, locals) == [call |-> "render", view |-> view, locals |-> locals]
Redirect(url) == [call |-> "redirect", url |-> url]
NextErr(err) == [call |-> "next", err |-> err]

\* What asyncHandler forwards when the handler dereferences null or undefined.
TypeError == [name |-> "TypeError"]

GenreUrl(id) == [path |-> "/catalog/genre/", id |-> id]
InstanceUrl(id) == [path |-> "/catalog/bookinstance/", id |-> id]
GenreListUrl == [path |-> "/catalog/genres"]
InstanceListUrl == [path |-> "/catalog/bookinstances"]

\* res.redirect(doc.url) for a query result; reading url off null throws.
UrlOf(doc, path) ==
  IF doc = Null THEN NextErr(TypeError) ELSE Redirect([path |-> path, id |-> doc._id])

\* -------------------------------------------------------------- requests

Idle == [handler |-> "none", pc |-> "done", res |-> <<>>]

\* No request is in flight: the server takes the next one.
Ready == req = Idle

\* The handler in flight has returned.
Done == req.pc = "done" /\ req.handler # "none"

Is(handler, pc) == req.handler = handler /\ req.pc = pc

Respond(r, calls) == [r EXCEPT !.pc = "done", !.res = r.res \o calls]

\* ------------------------------------------------------ submitted fields

SciFiPadded == <<" ", "S", "c", "i", "-", "F", "i", " ">>
SciFiLower == <<"s", "c", "i", "-", "f", "i">>
RnB == <<"R", "&", "B">>
RnBLower == <<"r", "&", "b">>

\* The names a client submits: absent, empty, blank, two characters within
\* padding, two characters that escape to six, and valid names that differ in
\* padding, in case and in needing escape.
RawNames == { Undefined, <<>>, <<" ", " ", " ">>, <<" ", "a", "b", " ">>,
              <<"&", "a">>, SciFiPadded, SciFiLower, RnB, RnBLower }

\* ------------------------------------------------------ genre validation

\* The chain with .trim() left out before .isLength({ min: 3 }).
NameErrorsUntrimmed(name) ==
  IF IsLength(ToString(name), 3)
  THEN <<>>
  ELSE <<[path |-> "name", msg |-> "Genre name must contain at least 3 characters"]>>

\* body("name", ...).trim().isLength({ min: 3 }).escape(): validationResult(req)
NameErrors(name) ==
  IF IsLength(Trim(ToString(name)), 3)
  THEN <<>>
  ELSE <<[path |-> "name", msg |-> "Genre name must contain at least 3 characters"]>>

\* body("name", ...).trim().isLength({ min: 3 }).escape(): req.body.name afterwards
SanitizeName(name) == Escape(Trim(ToString(name)))

\* ---------------------------------------------------------- genre_list

genre_list_call ==
  /\ Ready
  /\ req' = [handler |-> "genre_list", pc |-> "Genre.find", res |-> <<>>]
  /\ UNCHANGED <<genres, books, instances, nextGenreId, nextInstanceId>>

\* The list is rendered in name order; the model keeps the set of documents.
genre_list_find ==
  /\ Is("genre_list", "Genre.find")
  /\ req' = Respond(req, <<Render("genre_list",
                [title |-> "Genre list",
                 genres |-> {genres[g] : g \in DOMAIN genres}])>>)
  /\ UNCHANGED <<genres, books, instances, nextGenreId, nextInstanceId>>

genre_list == genre_list_call \/ genre_list_find

\* ------------------------------------------------ Promise.all of two reads

\* const [genre, books] = await Promise.all([Genre.findById(id), Book.find({genre: id})])
\* is issued: both reads are pending and complete in either order.
AwaitBoth(handler, id, body) ==
  [handler |-> handler, pc |-> "Promise.all", params |-> [id |-> id], body |-> body,
   pending |-> {"Genre.findById", "Book.find"}, genre |-> Null, books |-> {},
   res |-> <<>>]

\* Genre.findById(req.params.id).exec() completes.
Genre_findById ==
  /\ req.pc = "Promise.all"
  /\ "Genre.findById" \in req.pending
  /\ req' = [req EXCEPT !.pending = @ \ {"Genre.findById"},
                        !.genre = FindById(genres, req.params.id)]
  /\ UNCHANGED <<genres, books, instances, nextGenreId, nextInstanceId>>

\* Book.find({ genre: req.params.id }).exec() completes.
Book_find ==
  /\ req.pc = "Promise.all"
  /\ "Book.find" \in req.pending
  /\ req' = [req EXCEPT !.pending = @ \ {"Book.find"},
                        !.books = BookFind(req.params.id)]
  /\ UNCHANGED <<genres, books, instances, nextGenreId, nextInstanceId>>

\* Both reads are in: the handler resumes after the await.
Resumes(handler) ==
  /\ req.handler = handler
  /\ req.pc = "Promise.all"
  /\ req.pending = {}

\* --------------------------------------------------------- genre_detail

genre_detail_call(id) ==
  /\ Ready
  /\ req' = AwaitBoth("genre_detail", id, [none |-> TRUE])
  /\ UNCHANGED <<genres, books, instances, nextGenreId, nextInstanceId>>

\* genre_detail with next(err) in place of return next(err): the render follows.
genre_detail_resume_fallthrough ==
  /\ Resumes("genre_detail")
  /\ req' = Respond(req,
       (IF req.genre = Null
        THEN <<NextErr([message |-> "Genre not found", status |-> 404])>>
        ELSE <<>>)
       \o <<Render("genre_detail",
              [title |-> "Genre Detail", genre |-> req.genre,
               genre_books |-> req.books])>>)
  /\ UNCHANGED <<genres, books, instances, nextGenreId, nextInstanceId>>

genre_detail_resume ==
  /\ Resumes("genre_detail")
  /\ req' = Respond(req,
       IF req.genre = Null
       THEN <<NextErr([message |-> "Genre not found", status |-> 404])>>
       ELSE <<Render("genre_detail",
                [title |-> "Genre Detail", genre |-> req.genre,
                 genre_books |-> req.books])>>)
  /\ UNCHANGED <<genres, books, instances, nextGenreId, nextInstanceId>>

genre_detail == (\E id \in GenreIds : genre_detail_call(id)) \/ genre_detail_resume

\* ----------------------------------------------------- genre_create_get

genre_create_get ==
  /\ Ready
  /\ req' = [handler |-> "genre_create_get", pc |-> "done",
             res |-> <<Render("genre_form", [title |-> "Create Genre"])>>]
  /\ UNCHANGED <<genres, books, instances, nextGenreId, nextInstanceId>>

\* ---------------------------------------------------- genre_create_post

\* The validation chain, then the handler up to its first await (or its return).
\* new Genre({ name }) draws a fresh _id; the model hands out nextGenreId.
genre_create_post_call(name) ==
  /\ Ready
  /\ nextGenreId <= MaxGenreId
  /\ LET errors == NameErrors(name)
         genre == [_id |-> nextGenreId, name |-> SanitizeName(name)]
         r == [handler |-> "genre_create_post", pc |-> "Genre.findOne",
               form |-> [name |-> name], body |-> [name |-> SanitizeName(name)],
               errors |-> errors, genre |-> genre, genreExists |-> Null,
               res |-> <<>>]
     IN req' = IF errors # <<>>
               THEN Respond(r, <<Render("genre_form",
                      [title |-> "Create Genre", genre |-> genre, errors |-> errors])>>)
               ELSE r
  /\ UNCHANGED <<genres, books, instances, nextGenreId, nextInstanceId>>

\* The lookup made with the name as submitted instead of req.body.name.
genre_create_post_findOne_submitted ==
  /\ Is("genre_create_post", "Genre.findOne")
  /\ LET found == GenreFindOne(ToString(req.form.name))
     IN \E genreExists \in IF found = {} THEN {Null} ELSE {genres[g] : g \in found} :
          req' = IF genreExists # Null
                 THEN Respond([req EXCEPT !.genreExists = genreExists],
                              <<Redirect(GenreUrl(genreExists._id))>>)
                 ELSE [req EXCEPT !.pc = "genre.save"]
  /\ UNCHANGED <<genres, books, instances, nextGenreId, nextInstanceId>>

\* await Genre.findOne({ name: req.body.name }).collation(...).exec()
genre_create_post_findOne ==
  /\ Is("genre_create_post", "Genre.findOne")
  /\ LET found == GenreFindOne(req.body.name)
     IN \E genreExists \in IF found = {} THEN {Null} ELSE {genres[g] : g \in found} :
          req' = IF genreExists # Null
                 THEN Respond([req EXCEPT !.genreExists = genreExists],
                              <<Redirect(GenreUrl(genreExists._id))>>)
                 ELSE [req EXCEPT !.pc = "genre.save"]
  /\ UNCHANGED <<genres, books, instances, nextGenreId, nextInstanceId>>

\* await genre.save(); res.redirect(genre.url)
genre_create_post_save ==
  /\ Is("genre_create_post", "genre.save")
  /\ genres' = Insert(genres, req.genre)
  /\ nextGenreId' = nextGenreId + 1
  /\ req' = Respond(req, <<Redirect(GenreUrl(req.genre._id))>>)
  /\ UNCHANGED <<books, instances, nextInstanceId>>

genre_create_post ==
  \/ \E name \in RawNames : genre_create_post_call(name)
  \/ genre_create_post_findOne
  \/ genre_create_post_save

\* ----------------------------------------------------- genre_delete_get

genre_delete_get_call(id) ==
  /\ Ready
  /\ req' = AwaitBoth("genre_delete_get", id, [none |-> TRUE])
  /\ UNCHANGED <<genres, books, instances, nextGenreId, nextInstanceId>>

\* if (!genre) { res.redirect(...) } is not followed by a return.
genre_delete_get_resume ==
  /\ Resumes("genre_delete_get")
  /\ req' = Respond(req,
       (IF req.genre = Null THEN <<Redirect(GenreListUrl)>> ELSE <<>>)
       \o <<Render("genre_delete",
              [title |-> "Delete genre", genre |-> req.genre,
               booksWithGenre |-> req.books])>>)
  /\ UNCHANGED <<genres, books, instances, nextGenreId, nextInstanceId>>

genre_delete_get ==
  (\E id \in GenreIds : genre_delete_get_call(id)) \/ genre_delete_get_resume

\* ---------------------------------------------------- genre_delete_post

genre_delete_post_call(id, genreid) ==
  /\ Ready
  /\ req' = AwaitBoth("genre_delete_post", id, [genreid |-> genreid])
  /\ UNCHANGED <<genres, books, instances, nextGenreId, nextInstanceId>>

genre_delete_post_resume ==
  /\ Resumes("genre_delete_post")
  /\ req' = IF Cardinality(req.books) > 0
            THEN Respond(req, <<Render("genre_delete",
                   [title |-> "Delete genre", genre |-> req.genre,
                    booksWithGenre |-> req.books])>>)
            ELSE [req EXCEPT !.pc = "Genre.findByIdAndDelete"]
  /\ UNCHANGED <<genres, books, instances, nextGenreId, nextInstanceId>>

\* await Genre.findByIdAndDelete(req.body.genreid); res.redirect('/catalog/genres')
genre_delete_post_delete ==
  /\ Is("genre_delete_post", "Genre.findByIdAndDelete")
  /\ genres' = Delete(genres, req.body.genreid)
  /\ req' = Respond(req, <<Redirect(GenreListUrl)>>)
  /\ UNCHANGED <<books, instances, nextGenreId, nextInstanceId>>

genre_delete_post ==
  \/ \E id \in GenreIds, genreid \in GenreIds : genre_delete_post_call(id, genreid)
  \/ genre_delete_post_resume
  \/ genre_delete_post_delete

\* ----------------------------------------------------- genre_update_get

genre_update_get_call(id) ==
  /\ Ready
  /\ req' = [handler |-> "genre_update_get", pc |-> "Genre.findById",
             params |-> [id |-> id], res |-> <<>>]
  /\ UNCHANGED <<genres, books, instances, nextGenreId, nextInstanceId>>

\* if (!genre) res.redirect(...) is not followed by a return.
genre_update_get_findById ==
  /\ Is("genre_update_get", "Genre.findById")
  /\ LET genre == FindById(genres, req.params.id)
     IN req' = Respond(req,
          (IF genre = Null THEN <<Redirect(GenreListUrl)>> ELSE <<>>)
          \o <<Render("genre_form", [title |-> "Update Genre", genre |-> genre])>>)
  /\ UNCHANGED <<genres, books, instances, nextGenreId, nextInstanceId>>

genre_update_get ==
  (\E id \in GenreIds : genre_update_get_call(id)) \/ genre_update_get_findById

\* ---------------------------------------------------- genre_update_post

genre_update_post_call(id, name) ==
  /\ Ready
  /\ LET errors == NameErrors(name)
         genre == [_id |-> id, name |-> SanitizeName(name)]
         r == [handler |-> "genre_update_post", pc |-> "Genre.findByIdAndUpdate",
               params |-> [id |-> id], form |-> [name |-> name],
               body |-> [name |-> SanitizeName(name)],
               errors |-> errors, genre |-> genre, res |-> <<>>]
     IN req' = IF errors # <<>>
               THEN Respond(r, <<Render("genre_form",
                      [title |-> "Update Genre", genre |-> genre, errors |-> errors])>>)
               ELSE r
  /\ UNCHANGED <<genres, books, instances, nextGenreId, nextInstanceId>>

\* const updatedGenre = await Genre.findByIdAndUpdate(req.params.id, genre, {});
\* res.redirect(updatedGenre.url)
genre_update_post_update ==
  /\ Is("genre_update_post", "Genre.findByIdAndUpdate")
  /\ LET updatedGenre == FindById(genres, req.params.id)
     IN req' = Respond(req, <<UrlOf(updatedGenre, "/catalog/genre/")>>)
  /\ genres' = Update(genres, req.params.id, req.genre)
  /\ UNCHANGED <<books, instances, nextGenreId, nextInstanceId>>

genre_update_post ==
  \/ \E id \in GenreIds, name \in RawNames : genre_update_post_call(id, name)
  \/ genre_update_post_update

\* ------------------------------------------- bookinstance validation

Digits == <<"0", "1", "2", "3", "4", "5", "6", "7", "8", "9">>

IsDigit(c) == \E i \in 1..Len(Digits) : Digits[i] = c

DigitValue(c) == (CHOOSE i \in 1..Len(Digits) : Digits[i] = c) - 1

AllDigits(s) == \A i \in 1..Len(s) : IsDigit(s[i])

RECURSIVE ParseNat(_)
ParseNat(s) ==
  IF s = <<>> THEN 0
  ELSE 10 * ParseNat(SubSeq(s, 1, Len(s) - 1)) + DigitValue(s[Len(s)])

\* .isISO8601(), on the calendar forms YYYY, YYYY-MM and YYYY-MM-DD (the week,
\* ordinal and time forms are not among the model's inputs): months 01..12 and
\* days 01..31, and no trimming.
IsISO8601(s) ==
  LET year == Len(s) >= 4 /\ AllDigits(SubSeq(s, 1, 4))
      month == /\ Len(s) >= 7 /\ s[5] = "-" /\ AllDigits(SubSeq(s, 6, 7))
               /\ ParseNat(SubSeq(s, 6, 7)) \in 1..12
      day == /\ Len(s) = 10 /\ s[8] = "-" /\ AllDigits(SubSeq(s, 9, 10))
             /\ ParseNat(SubSeq(s, 9, 10)) \in 1..31
  IN \/ Len(s) = 4 /\ year
     \/ Len(s) = 7 /\ year /\ month
     \/ Len(s) = 10 /\ year /\ month /\ day

\* .toDate() of a string isISO8601 accepts.
ToDate(s) ==
  [year |-> ParseNat(SubSeq(s, 1, 4)),
   month |-> IF Len(s) >= 7 THEN ParseNat(SubSeq(s, 6, 7)) ELSE 1,
   day |-> IF Len(s) = 10 THEN ParseNat(SubSeq(s, 9, 10)) ELSE 1]

\* .optional({ values: "falsy" }): the field is skipped when absent or empty.
Falsy(v) == v = Undefined \/ v = <<>>

\* The errors of the chain, in the order of its fields.
InstanceErrors(form) ==
  (IF IsLength(Trim(ToString(form.book)), 1) THEN <<>>
   ELSE <<[path |-> "book", msg |-> "Book must be specified"]>>)
  \o (IF IsLength(Trim(ToString(form.imprint)), 1) THEN <<>>
      ELSE <<[path |-> "imprint", msg |-> "Imprint must be specified"]>>)
  \o (IF Falsy(form.due_back) \/ IsISO8601(ToString(form.due_back)) THEN <<>>
      ELSE <<[path |-> "due_back", msg |-> "Invalid date"]>>)

\* req.body.due_back after .optional().isISO8601().toDate(): a date, or no date
\* (the field was skipped, or toDate turned a string that is no date into null).
SanitizeDueBack(v) ==
  IF ~Falsy(v) /\ IsISO8601(ToString(v)) THEN ToDate(ToString(v)) ELSE Null

\* req.body after the chain.
SanitizeInstance(form) ==
  [book |-> Escape(Trim(ToString(form.book))),
   imprint |-> Escape(Trim(ToString(form.imprint))),
   status |-> Escape(ToString(form.status)),
   due_back |-> SanitizeDueBack(form.due_back)]

\* A reference field that holds nothing.
NoRef == 0

\* The cast of a submitted string to a Book reference. The model's ids are
\* numerals; a string that is no id leaves the field unset.
CastObjectId(s) ==
  IF s # <<>> /\ AllDigits(s) /\ ParseNat(s) >= 1 THEN ParseNat(s) ELSE NoRef

\* new BookInstance({ book, imprint, status, due_back, _id })
NewBookInstance(id, body) ==
  [_id |-> id, book |-> CastObjectId(body.book), imprint |-> body.imprint,
   status |-> body.status, due_back |-> body.due_back]

\* res.render("bookinstance_form", { ..., selected_book: bookInstance.book._id, ... }):
\* reading _id off a book that is unset throws before render is called.
RenderInstanceForm(title, bookInstance, errors) ==
  IF bookInstance.book = NoRef
  THEN NextErr(TypeError)
  ELSE Render("bookinstance_form",
         [title |-> title, book_list |-> BookIds,
          selected_book |-> bookInstance.book, errors |-> errors,
          bookinstance |-> bookInstance])

Available == <<"A", "v", "a", "i", "l", "a", "b", "l", "e">>
Jan2 == <<"2", "0", "2", "4", "-", "0", "1", "-", "0", "2">>
Soon == <<"s", "o", "o", "n">>

Form(book, imprint, due_back) ==
  [book |-> book, imprint |-> imprint, status |-> Available, due_back |-> due_back]

Book1Padded == <<" ", "1", " ">>
Book2 == <<"2">>
Blank == <<" ", " ">>
ImprintPadded == <<" ", "<", "Y">>

\* The forms a client submits. Valid ones: a padded or bare book id, an imprint
\* needing trim and escape, due_back absent, empty or a date. Then one field
\* wrong at a time (book or imprint absent or blank, due_back no date), and
\* several at once.
Forms ==
  { Form(Book1Padded, ImprintPadded, Undefined),
    Form(Book2, ImprintPadded, Jan2),
    Form(Book2, ImprintPadded, <<>>),
    Form(Undefined, ImprintPadded, Jan2),
    Form(Blank, ImprintPadded, Undefined),
    Form(Book1Padded, Undefined, Undefined),
    Form(Book2, Blank, Jan2),
    Form(Book2, ImprintPadded, Soon),
    Form(Book1Padded, Blank, Soon),
    Form(Blank, Blank, Soon) }

\* ------------------------------------------------------ bookinstance_list

bookinstance_list_call ==
  /\ Ready
  /\ req' = [handler |-> "bookinstance_list", pc |-> "BookInstance.find", res |-> <<>>]
  /\ UNCHANGED <<genres, books, instances, nextGenreId, nextInstanceId>>

bookinstance_list_find ==
  /\ Is("bookinstance_list", "BookInstance.find")
  /\ req' = Respond(req, <<Render("bookinstance_list",
                [title |-> "Book Instance List",
                 bookinstance_list |-> {instances[i] : i \in DOMAIN instances}])>>)
  /\ UNCHANGED <<genres, books, instances, nextGenreId, nextInstanceId>>

bookinstance_list == bookinstance_list_call \/ bookinstance_list_find

\* ---------------------------------------------------- bookinstance_detail

bookinstance_detail_call(id) ==
  /\ Ready
  /\ req' = [handler |-> "bookinstance_detail", pc |-> "BookInstance.findById",
             params |-> [id |-> id], res |-> <<>>]
  /\ UNCHANGED <<genres, books, instances, nextGenreId, nextInstanceId>>

bookinstance_detail_findById ==
  /\ Is("bookinstance_detail", "BookInstance.findById")
  /\ LET bookInstance == FindById(instances, req.params.id)
     IN req' = Respond(req,
          IF bookInstance = Null
          THEN <<NextErr([message |-> "Book copy not found", status |-> 404])>>
          ELSE <<Render("bookinstance_detail",
                   [title |-> "Book:", bookinstance |-> bookInstance])>>)
  /\ UNCHANGED <<genres, books, instances, nextGenreId, nextInstanceId>>

bookinstance_detail ==
  (\E id \in InstanceIds : bookinstance_detail_call(id)) \/ bookinstance_detail_findById

\* ------------------------------------------------ bookinstance_create_get

bookinstance_create_get_call ==
  /\ Ready
  /\ req' = [handler |-> "bookinstance_create_get", pc |-> "Book.find", res |-> <<>>]
  /\ UNCHANGED <<genres, books, instances, nextGenreId, nextInstanceId>>

\* The books are listed in title order; the model keeps the set.
bookinstance_create_get_find ==
  /\ Is("bookinstance_create_get", "Book.find")
  /\ req' = Respond(req, <<Render("bookinstance_form",
                [title |-> "Create BookInstance", book_list |-> BookIds])>>)
  /\ UNCHANGED <<genres, books, instances, nextGenreId, nextInstanceId>>

bookinstance_create_get == bookinstance_create_get_call \/ bookinstance_create_get_find

\* ----------------------------------------------- bookinstance_create_post

\* The validation chain, then the handler up to its first await.
\* new BookInstance({...}) draws a fresh _id; the model hands out nextInstanceId.
bookinstance_create_post_call(form) ==
  /\ Ready
  /\ nextInstanceId <= MaxInstanceId
  /\ LET errors == InstanceErrors(form)
         body == SanitizeInstance(form)
     IN req' = [handler |-> "bookinstance_create_post",
                pc |-> IF errors # <<>> THEN "Book.find" ELSE "bookInstance.save",
                form |-> form, body |-> body, errors |-> errors,
                bookInstance |-> NewBookInstance(nextInstanceId, body), res |-> <<>>]
  /\ UNCHANGED <<genres, books, instances, nextGenreId, nextInstanceId>>

\* There are errors: await Book.find(...), then render the form again.
bookinstance_create_post_find ==
  /\ Is("bookinstance_create_post", "Book.find")
  /\ req' = Respond(req, <<RenderInstanceForm("Create BookInstance",
                             req.bookInstance, req.errors)>>)
  /\ UNCHANGED <<genres, books, instances, nextGenreId, nextInstanceId>>

\* await bookInstance.save(); res.redirect(bookInstance.url)
bookinstance_create_post_save ==
  /\ Is("bookinstance_create_post", "bookInstance.save")
  /\ instances' = Insert(instances, req.bookInstance)
  /\ nextInstanceId' = nextInstanceId + 1
  /\ req' = Respond(req, <<Redirect(InstanceUrl(req.bookInstance._id))>>)
  /\ UNCHANGED <<genres, books, nextGenreId>>

bookinstance_create_post ==
  \/ \E form \in Forms : bookinstance_create_post_call(form)
  \/ bookinstance_create_post_find
  \/ bookinstance_create_post_save

\* ------------------------------------------------ bookinstance_delete_get

bookinstance_delete_get_call(id) ==
  /\ Ready
  /\ req' = [handler |-> "bookinstance_delete_get", pc |-> "BookInstance.findById",
             params |-> [id |-> id], res |-> <<>>]
  /\ UNCHANGED <<genres, books, instances, nextGenreId, nextInstanceId>>

bookinstance_delete_get_findById ==
  /\ Is("bookinstance_delete_get", "BookInstance.findById")
  /\ LET instance == FindById(instances, req.params.id)
     IN req' = Respond(req,
          IF instance = Null
          THEN <<NextErr([message |-> "Instance not found", status |-> 404])>>
          ELSE <<Render("bookinstance_delete",
                   [title |-> "Delete book instance", instance |-> instance])>>)
  /\ UNCHANGED <<genres, books, instances, nextGenreId, nextInstanceId>>

bookinstance_delete_get ==
  \/ \E id \in InstanceIds : bookinstance_delete_get_call(id)
  \/ bookinstance_delete_get_findById

\* ----------------------------------------------- bookinstance_delete_post

bookinstance_delete_post_call(id) ==
  /\ Ready
  /\ req' = [handler |-> "bookinstance_delete_post", pc |-> "BookInstance.findById",
             params |-> [id |-> id], res |-> <<>>]
  /\ UNCHANGED <<genres, books, instances, nextGenreId, nextInstanceId>>

\* if (!instance) { res.redirect(...) } is not followed by a return: the handler
\* goes on to the delete.
bookinstance_delete_post_findById ==
  /\ Is("bookinstance_delete_post", "BookInstance.findById")
  /\ LET instance == FindById(instances, req.params.id)
     IN req' = [req EXCEPT
          !.pc = "BookInstance.findByIdAndDelete",
          !.res = IF instance = Null THEN <<Redirect(InstanceListUrl)>> ELSE <<>>]
  /\ UNCHANGED <<genres, books, instances, nextGenreId, nextInstanceId>>

\* await BookInstance.findByIdAndDelete(req.params.id).exec(); res.redirect(...)
bookinstance_delete_post_delete ==
  /\ Is("bookinstance_delete_post", "BookInstance.findByIdAndDelete")
  /\ instances' = Delete(instances, req.params.id)
  /\ req' = Respond(req, <<Redirect(InstanceListUrl)>>)
  /\ UNCHANGED <<genres, books, nextGenreId, nextInstanceId>>

bookinstance_delete_post ==
  \/ \E id \in InstanceIds : bookinstance_delete_post_call(id)
  \/ bookinstance_delete_post_findById
  \/ bookinstance_delete_post_delete

\* ------------------------------------------------ bookinstance_update_get

bookinstance_update_get_call(id) ==
  /\ Ready
  /\ req' = [handler |-> "bookinstance_update_get", pc |-> "BookInstance.findById",
             params |-> [id |-> id], instance |-> Null, res |-> <<>>]
  /\ UNCHANGED <<genres, books, instances, nextGenreId, nextInstanceId>>

bookinstance_update_get_findById ==
  /\ Is("bookinstance_update_get", "BookInstance.findById")
  /\ req' = [req EXCEPT !.pc = "Book.find",
                        !.instance = FindById(instances, req.params.id)]
  /\ UNCHANGED <<genres, books, instances, nextGenreId, nextInstanceId>>

\* if (!instance) { ...; next(err) } is not followed by a return: the handler goes
\* on to read instance.book._id, which throws on null before render is called.
bookinstance_update_get_find ==
  /\ Is("bookinstance_update_get", "Book.find")
  /\ req' = Respond(req,
       IF req.instance = Null
       THEN <<NextErr([message |-> "Instance not found", status |-> 404]),
              NextErr(TypeError)>>
       ELSE <<Render("bookinstance_form",
                [title |-> "Update book instance", bookinstance |-> req.instance,
                 selected_book |-> req.instance.book, book_list |-> BookIds])>>)
  /\ UNCHANGED <<genres, books, instances, nextGenreId, nextInstanceId>>

bookinstance_update_get ==
  \/ \E id \in InstanceIds : bookinstance_update_get_call(id)
  \/ bookinstance_update_get_findById
  \/ bookinstance_update_get_find

\* ----------------------------------------------- bookinstance_update_post

bookinstance_update_post_call(id, form) ==
  /\ Ready
  /\ LET errors == InstanceErrors(form)
         body == SanitizeInstance(form)
     IN req' = [handler |-> "bookinstance_update_post",
                pc |-> IF errors # <<>> THEN "Book.find"
                       ELSE "BookInstance.findByIdAndUpdate",
                params |-> [id |-> id], form |-> form, body |-> body,
                errors |-> errors, bookInstance |-> NewBookInstance(id, body),
                res |-> <<>>]
  /\ UNCHANGED <<genres, books, instances, nextGenreId, nextInstanceId>>

bookinstance_update_post_find ==
  /\ Is("bookinstance_update_post", "Book.find")
  /\ req' = Respond(req, <<RenderInstanceForm("Update BookInstance",
                             req.bookInstance, req.errors)>>)
  /\ UNCHANGED <<genres, books, instances, nextGenreId, nextInstanceId>>

\* const updatedInstance = await BookInstance.findByIdAndUpdate(req.params.id,
\* bookInstance, {}); res.redirect(updatedInstance.url)
bookinstance_update_post_update ==
  /\ Is("bookinstance_update_post", "BookInstance.findByIdAndUpdate")
  /\ LET updatedInstance == FindById(instances, req.params.id)
     IN req' = Respond(req, <<UrlOf(updatedInstance, "/catalog/bookinstance/")>>)
  /\ instances' = Update(instances, req.params.id, req.bookInstance)
  /\ UNCHANGED <<genres, books, nextGenreId, nextInstanceId>>

bookinstance_update_post ==
  \/ \E id \in InstanceIds, form \in Forms : bookinstance_update_post_call(id, form)
  \/ bookinstance_update_post_find
  \/ bookinstance_update_post_update

\* ------------------------------------------------------ the specifications

\* The handler has returned and its promise settled: the request is over.
RequestEnds ==
  /\ Done
  /\ req' = Idle
  /\ UNCHANGED <<genres, books, instances, nextGenreId, nextInstanceId>>

\* The store when the server starts: one genre, the first n books in it and the
\* others in none, no book instance, no request in flight.
Init ==
  /\ genres = [g \in {1} |-> [_id |-> g, name |-> SanitizeName(SciFiPadded)]]
  /\ \E n \in 0..NumBooks :
       books = [b \in BookIds |-> [genre |-> IF b <= n THEN {1} ELSE {}]]
  /\ instances = [i \in {} |-> Null]
  /\ nextGenreId = 2
  /\ nextInstanceId = 1
  /\ req = Idle

GenreNext ==
  \/ genre_list
  \/ genre_detail
  \/ genre_create_get
  \/ genre_create_post
  \/ genre_delete_get
  \/ genre_delete_post
  \/ genre_update_get
  \/ genre_update_post
  \/ Genre_findById
  \/ Book_find

BookInstanceNext ==
  \/ bookinstance_list
  \/ bookinstance_detail
  \/ bookinstance_create_get
  \/ bookinstance_create_post
  \/ bookinstance_delete_get
  \/ bookinstance_delete_post
  \/ bookinstance_update_get
  \/ bookinstance_update_post

Next == GenreNext \/ BookInstanceNext \/ RequestEnds

Spec == Init /\ [][Next]_vars

\* The Genre controller alone, and the BookInstance controller alone.
GenreSpec == Init /\ [][GenreNext \/ RequestEnds]_vars

BookInstanceSpec == Init /\ [][BookInstanceNext \/ RequestEnds]_vars

\* ------------------------------------------------------------ the claims

\* The genres whose stored name equals s letter for letter, case apart.
SameName(s) == {g \in DOMAIN genres : Fold(genres[g].name) = Fold(s)}

\* The books that reference genre g.
Dependents(g) == {b \in BookIds : g \in books[b].genre}

\* C1: genre_delete_post never removes a genre that a book references: whenever
\* the genre a request is about to delete (req.body.genreid) has a dependent
\* book, the genres stay as they are and the handler ends rendering
\* 'genre_delete' with exactly those books.
C1_ReferencedGenreIsKept ==
  [][(/\ req.handler = "genre_delete_post"
      /\ req.body.genreid \in DOMAIN genres
      /\ Dependents(req.body.genreid) # {})
     => /\ genres' = genres
        /\ (req'.pc = "done" /\ req'.handler = "genre_delete_post") =>
             /\ Len(req'.res) = 1
             /\ req'.res[1].call = "render"
             /\ req'.res[1].view = "genre_delete"
             /\ req'.res[1].locals.booksWithGenre = Dependents(req.body.genreid)]_vars

\* The lookup and the save of genre_create_post, for the name n the store is
\* searched for and the new genre holds: a match ends the request with a redirect
\* to a matching genre and the store as it was; no match leads to the save, which
\* adds exactly one genre, named n, under a new id, and redirects to it.
CreateIsUnique(n) ==
  /\ Is("genre_create_post", "Genre.findOne") =>
       /\ genres' = genres
       /\ IF SameName(n) # {}
          THEN /\ req'.pc = "done"
               /\ \E g \in SameName(n) : req'.res = <<[call |-> "redirect",
                    url |-> [path |-> "/catalog/genre/", id |-> g]]>>
          ELSE req'.pc = "genre.save"
  /\ Is("genre_create_post", "genre.save") =>
       /\ SameName(n) = {}
       /\ req'.pc = "done"
       /\ \E id \in GenreIds \ DOMAIN genres :
            /\ DOMAIN genres' = DOMAIN genres \cup {id}
            /\ \A g \in DOMAIN genres : genres'[g] = genres[g]
            /\ genres'[id] = [_id |-> id, name |-> n]
            /\ req'.res = <<[call |-> "redirect",
                 url |-> [path |-> "/catalog/genre/", id |-> id]]>>

\* C2 as amended: genre create is duplicate-free up to case on the trimmed and
\* HTML-escaped name: a valid name whose trimmed, escaped form equals a stored
\* name (case apart) redirects to that genre and leaves the store unchanged;
\* otherwise exactly one new genre holding the trimmed, escaped name is stored
\* and the redirect goes to it.
C2_CreateUniqueOnEscapedName ==
  [][req.handler = "genre_create_post"
     => CreateIsUnique(Escape(Trim(ToString(req.form.name))))]_vars

\* C2 as stated: the same on the trimmed name.
C2_CreateUniqueOnTrimmedName ==
  [][req.handler = "genre_create_post"
     => CreateIsUnique(Trim(ToString(req.form.name)))]_vars

\* C2's case: " Sci-Fi " is stored as genre 1 and a create of "sci-fi" has been
\* redirected to it, with no second genre stored.
C2_Witness ==
  /\ Done
  /\ req.handler = "genre_create_post"
  /\ req.form.name = SciFiLower
  /\ DOMAIN genres = {1}
  /\ genres[1].name = <<"S", "c", "i", "-", "F", "i">>
  /\ req.res = <<Redirect(GenreUrl(1))>>

\* A genre create or update arrives with the name `name' and is rejected there
\* and then: nothing is stored, and the one response is 'genre_form' with errors
\* and a genre named `shown'.
Rejects(shown) ==
  /\ genres' = genres
  /\ req'.pc = "done"
  /\ Len(req'.res) = 1
  /\ req'.res[1].call = "render"
  /\ req'.res[1].view = "genre_form"
  /\ req'.res[1].locals.errors # <<>>
  /\ req'.res[1].locals.genre.name = shown

ShortNameArrives ==
  /\ Ready
  /\ req'.handler \in {"genre_create_post", "genre_update_post"}
  /\ Len(Trim(ToString(req'.form.name))) < 3

C4_DeletesGenreOfUrlId ==
  [][(/\ Is("genre_delete_post", "Genre.findByIdAndDelete")
      /\ req.params.id \in DOMAIN genres
      /\ Dependents(req.params.id) = {})
     => /\ DOMAIN genres' = DOMAIN genres \ {req.params.id}
        /\ \A g \in DOMAIN genres' : genres'[g] = genres[g]
        /\ books' = books
        /\ req'.pc = "done"
        /\ req'.res = <<[call |-> "redirect", url |-> [path |-> "/catalog/genres"]]>>]_vars

\* book or imprint absent or blank, or due_back given and no ISO-8601 date.
FormIsRejected(form) ==
  \/ Trim(ToString(form.book)) = <<>>
  \/ Trim(ToString(form.imprint)) = <<>>
  \/ ~Falsy(form.due_back) /\ ~IsISO8601(form.due_back)

\* C5: a bookinstance create or update whose form is rejected leaves the store
\* unchanged and renders 'bookinstance_form' again with errors and the full book
\* list; a form that is not rejected (due_back absent or empty does not reject)
\* is persisted under its id and answered with a redirect to its URL.
C5_FormRejectedOrPersisted ==
  (/\ Done
   /\ req.handler \in {"bookinstance_create_post", "bookinstance_update_post"})
  => IF FormIsRejected(req.form)
     THEN /\ Len(req.res) = 1
          /\ req.res[1].call = "render"
          /\ req.res[1].view = "bookinstance_form"
          /\ req.res[1].locals.errors # <<>>
          /\ req.res[1].locals.book_list = BookIds
     ELSE /\ req.bookInstance._id \in DOMAIN instances
          /\ instances[req.bookInstance._id] =
               NewBookInstance(req.bookInstance._id, SanitizeInstance(req.form))
          /\ req.res = <<[call |-> "redirect",
               url |-> [path |-> "/catalog/bookinstance/", id |-> req.bookInstance._id]]>>

\* C6: genre_detail and bookinstance_detail end, for an id that is not stored,
\* with exactly one call, next(err) with status 404, and no render; for a stored
\* id with exactly one call, the render of the detail view of that document.
C6_DetailRendersOr404 ==
  /\ (Done /\ req.handler = "genre_detail") =>
       /\ Len(req.res) = 1
       /\ IF req.params.id \in DOMAIN genres
          THEN /\ req.res[1].call = "render"
               /\ req.res[1].view = "genre_detail"
               /\ req.res[1].locals.genre = genres[req.params.id]
               /\ req.res[1].locals.genre_books = Dependents(req.params.id)
          ELSE /\ req.res[1].call = "next"
               /\ req.res[1].err.status = 404
  /\ (Done /\ req.handler = "bookinstance_detail") =>
       /\ Len(req.res) = 1
       /\ IF req.params.id \in DOMAIN instances
          THEN /\ req.res[1].call = "render"
               /\ req.res[1].view = "bookinstance_detail"
               /\ req.res[1].locals.bookinstance = instances[req.params.id]
          ELSE /\ req.res[1].call = "next"
               /\ req.res[1].err.status = 404

\* C6's case: genre_detail was asked for an id that is not stored and has ended.
C6_Witness ==
  /\ Done
  /\ req.handler = "genre_detail"
  /\ req.params.id \notin DOMAIN genres
  /\ req.res = <<NextErr([message |-> "Genre not found", status |-> 404])>>

\* C7: bookinstance_delete_post ends with one redirect to
\* '/catalog/bookinstances' and nothing else, the instance of the URL id gone;
\* for an id that is not stored it issues no delete.
C7_DeleteRedirectsOnce ==
  /\ (Done /\ req.handler = "bookinstance_delete_post") =>
       /\ req.res = <<[call |-> "redirect", url |-> [path |-> "/catalog/bookinstances"]]>>
       /\ req.params.id \notin DOMAIN instances
  /\ Is("bookinstance_delete_post", "BookInstance.findByIdAndDelete") =>
       req.params.id \in DOMAIN instances

\* C8: an update with valid input ends with a record stored at the URL id that
\* carries the submitted, normalized fields, whether or not the id was stored
\* before, and with a redirect to that record's URL.
C8_UpdateUpserts ==
  /\ (Done /\ req.handler = "genre_update_post" /\ req.errors = <<>>) =>
       /\ req.params.id \in DOMAIN genres
       /\ genres[req.params.id] = [_id |-> req.params.id, name |-> req.body.name]
       /\ req.res = <<[call |-> "redirect",
            url |-> [path |-> "/catalog/genre/", id |-> req.params.id]]>>
  /\ (Done /\ req.handler = "bookinstance_update_post" /\ req.errors = <<>>) =>
       /\ req.params.id \in DOMAIN instances
       /\ instances[req.params.id] = NewBookInstance(req.params.id, req.body)
       /\ req.res = <<[call |-> "redirect",
            url |-> [path |-> "/catalog/bookinstance/", id |-> req.params.id]]>>

\* C9: every handler that has returned has issued exactly one response call
\* among res.render, res.redirect and next(err), and none has read a field of a
\* fetched record that was not found (the TypeError of an update or of
\* bookinstance_update_get on an id that is not stored).
C9_SingleResponse ==
  Done => /\ Len(req.res) = 1
          /\ req.res[1] = NextErr(TypeError) =>
               /\ req.handler \in {"bookinstance_create_post", "bookinstance_update_post"}
               /\ req.errors # <<>>

\* No two stored genres have names that are equal case apart.
UniqueNames(store) ==
  \A g, h \in DOMAIN store : Fold(store[g].name) = Fold(store[h].name) => g = h

====
